---- MODULE Spec2Model ----
(***************************************************************************)
(* trade-data: the append-only record file FileStorage<Timestamp, i32>,    *)
(* its on-disk binary search, the time-series scans built on it and the    *)
(* pooling engine (bucketed aggregation with gap fill) over those scans.   *)
(*                                                                         *)
(* The file is a sequence of bytes (ASCII codes).  Keys and values go      *)
(* through their Storable codecs on every write and every read; offsets    *)
(* are byte offsets, as in the source.                                     *)
(***************************************************************************)
EXTENDS Integers, Sequences, FiniteSets

(***************************************************************************)
(* Bounds of the model.                                                    *)
(***************************************************************************)
\* Timestamps offered to store and to the reads are 0..MaxKey (+1 for reads).
MaxKey == 3
\* A store holds at most MaxItems records.
MaxItems == 3
\* Values offered to store are 0..MaxValue.
MaxValue == 1
\* The widest bucket of a pool operation.
MaxInterval == 2

(***************************************************************************)
(* Program constants.                                                      *)
(***************************************************************************)
SIGNIFICANT_DIGITS == 13
I32_SIZE == 4

\* ASCII codes of the bytes the codecs produce and the parsers look at.
ByteNL    == 10
ByteSpace == 32
BytePlus  == 43
ByteMinus == 45
ByteZero  == 48

(***************************************************************************)
(* io::Result: an Ok value, an io::Error of some ErrorKind, or a panic.    *)
(***************************************************************************)
Ok(v)  == [kind |-> "Ok", val |-> v]
Err(k, m) == [kind |-> k, msg |-> m]
Panic  == [kind |-> "Panic"]
IsOk(r) == r.kind = "Ok"

(***************************************************************************)
(* Rust's integer formatting and parsing.                                  *)
(***************************************************************************)
RECURSIVE DecDigits(_)
\* The decimal digits of a natural number, most significant first.
DecDigits(n) ==
    IF n < 10 THEN <<ByteZero + n>>
    ELSE DecDigits(n \div 10) \o <<ByteZero + (n % 10)>>

\* Display of an integer: a minus sign for negatives, then the digits.
DisplayInt(n) ==
    IF n < 0 THEN <<ByteMinus>> \o DecDigits(0 - n) ELSE DecDigits(n)

\* format!("{:width$}") pads on the left up to a minimum width and never
\* truncates: a longer text is written whole.
PadLeft(s, width, fill) ==
    IF Len(s) >= width THEN s
    ELSE [i \in 1..(width - Len(s)) |-> fill] \o s

IsDigit(b) == b >= ByteZero /\ b <= ByteZero + 9

RECURSIVE DigitsValue(_, _)
\* The number the first n bytes of s spell, all of them digits.
DigitsValue(s, n) ==
    IF n = 0 THEN 0
    ELSE 10 * DigitsValue(s, n - 1) + (s[n] - ByteZero)

\* u64::from_str: an optional '+', then one or more digits.
U64FromStr(s) ==
    LET body == IF s # <<>> /\ s[1] = BytePlus THEN Tail(s) ELSE s
    IN  IF body # <<>> /\ \A i \in 1..Len(body) : IsDigit(body[i])
        THEN Ok(DigitsValue(body, Len(body)))
        ELSE Err("ParseIntError", "invalid digit found in string")

\* i32::from_str: an optional sign, then one or more digits.
I32FromStr(s) ==
    LET signed == s # <<>> /\ s[1] \in {BytePlus, ByteMinus}
        body   == IF signed THEN Tail(s) ELSE s
    IN  IF body # <<>> /\ \A i \in 1..Len(body) : IsDigit(body[i])
        THEN Ok(IF signed /\ s[1] = ByteMinus
                THEN 0 - DigitsValue(body, Len(body)) ELSE DigitsValue(body, Len(body)))
        ELSE Err("ParseIntError", "invalid digit found in string")

(***************************************************************************)
(* Storable for Timestamp and for i32.                                     *)
(***************************************************************************)
KSize == SIGNIFICANT_DIGITS
VSize == I32_SIZE

\* format!("{:0size$}", self, size = SIGNIFICANT_DIGITS)
TimestampIntoBytes(k) == PadLeft(DecDigits(k), SIGNIFICANT_DIGITS, ByteZero)
TimestampFromBytes(b) ==
    LET value == U64FromStr(b)
    IN  IF IsOk(value) THEN value ELSE Err("InvalidData", "Invalid data")

\* format!("{:4}", self)
I32IntoBytes(v) == PadLeft(DisplayInt(v), I32_SIZE, ByteSpace)
I32FromBytes(b) ==
    LET value == I32FromStr(b)
    IN  IF IsOk(value) THEN value ELSE Err("InvalidData", "Invalid data")

\* item_size = K::size() + 1 + V::size() + 1
ItemSize == KSize + 1 + VSize + 1

(***************************************************************************)
(* Reading and writing the file.  Every read in the source is preceded by  *)
(* a seek to an absolute offset, so a read takes the offset it starts at.  *)
(***************************************************************************)
\* Read::read_exact of n bytes at byte offset off.
ReadExact(f, off, n) ==
    IF off + n <= Len(f) THEN Ok(SubSeq(f, off + 1, off + n))
    ELSE Err("UnexpectedEof", "failed to fill whole buffer")

\* read_key: the first K::size() bytes at the offset, parsed as the key.
read_key(f, off) ==
    LET b == ReadExact(f, off, KSize)
    IN  IF IsOk(b) THEN TimestampFromBytes(b.val) ELSE b

IsWhitespace(b) == b \in 9..13 \/ b = ByteSpace

RECURSIVE SkipWhile(_, _, _)
\* The first position at or after pos whose byte is whitespace (ws = FALSE)
\* or is not (ws = TRUE); Len(s) + 1 when there is none.
SkipWhile(s, pos, ws) ==
    IF pos > Len(s) \/ IsWhitespace(s[pos]) # ws THEN pos
    ELSE SkipWhile(s, pos + 1, ws)

\* One step of str::split_whitespace: the first token at or after position
\* pos (1-based), with the position that follows it; found is FALSE when
\* only whitespace is left.
NextToken(s, pos) ==
    LET b == SkipWhile(s, pos, TRUE)
        e == SkipWhile(s, b, FALSE)
    IN  IF b > Len(s) THEN [found |-> FALSE, tok |-> <<>>, next |-> b]
        ELSE [found |-> TRUE, tok |-> SubSeq(s, b, e - 1), next |-> e]

\* read_record: item_size bytes at the offset, split on whitespace; the
\* first chunk is the key and the second the value.  unwrap() on a missing
\* chunk panics; a chunk that does not parse is InvalidData.
read_record(f, off) ==
    LET b == ReadExact(f, off, ItemSize)
    IN  IF ~IsOk(b) THEN b
        ELSE LET t1 == NextToken(b.val, 1)
                 k  == TimestampFromBytes(t1.tok)
                 t2 == NextToken(b.val, t1.next)
                 v  == I32FromBytes(t2.tok)
             IN  IF ~t1.found THEN Panic
                 ELSE IF ~IsOk(k) THEN k
                 ELSE IF ~t2.found THEN Panic
                 ELSE IF ~IsOk(v) THEN v
                 ELSE Ok(<<k.val, v.val>>)

\* write_record on a file opened for append: key, ' ', value, '\n' are
\* buffered and flushed as one write at the end of the file.
write_record(f, key, value) ==
    f \o TimestampIntoBytes(key) \o <<ByteSpace>> \o I32IntoBytes(value) \o <<ByteNL>>

\* The scan loop of the retrieve operations: count records read one after
\* another starting at byte offset off; the first error ends the scan.
RECURSIVE read_records(_, _, _)
read_records(f, off, count) ==
    IF count <= 0 THEN Ok(<<>>)
    ELSE LET r == read_record(f, off)
         IN  IF ~IsOk(r) THEN r
             ELSE LET rest == read_records(f, off + ItemSize, count - 1)
                  IN  IF ~IsOk(rest) THEN rest ELSE Ok(<<r.val>> \o rest.val)

(***************************************************************************)
(* On-disk binary search.                                                  *)
(***************************************************************************)
\* RetrievalDirection, and None for Option<RetrievalDirection>.
Directions == {"Forward", "Backward", "None"}

RECURSIVE bisect_and_descend(_, _, _, _, _)
RECURSIVE bisect_directions_swapped(_, _, _, _, _)
\* bisect_and_descend with the two ends of the last step exchanged.
bisect_directions_swapped(f, dir, search_key, start_offset, end_offset) ==
    LET range_items   == (end_offset - start_offset) \div ItemSize
        center_offset == start_offset + (range_items \div 2) * ItemSize
        center_key    == read_key(f, center_offset)
    IN  IF range_items = 1
        THEN CASE dir = "Forward"  -> Ok(start_offset)
               [] dir = "Backward" -> Ok(end_offset)
               [] OTHER            -> Err("NotFound", "Search key was not found")
        ELSE IF ~IsOk(center_key) THEN center_key
        ELSE IF search_key < center_key.val
             THEN bisect_and_descend(f, dir, search_key, start_offset, center_offset)
        ELSE IF search_key > center_key.val
             THEN bisect_and_descend(f, dir, search_key, center_offset, end_offset)
        ELSE Ok(center_offset)

bisect_and_descend(f, dir, search_key, start_offset, end_offset) ==
    LET range_items   == (end_offset - start_offset) \div ItemSize
        center_offset == start_offset + (range_items \div 2) * ItemSize
        center_key    == read_key(f, center_offset)
    IN  IF range_items = 1
        THEN CASE dir = "Forward"  -> Ok(end_offset)
               [] dir = "Backward" -> Ok(start_offset)
               [] OTHER            -> Err("NotFound", "Search key was not found")
        ELSE IF ~IsOk(center_key) THEN center_key
        ELSE IF search_key < center_key.val
             THEN bisect_and_descend(f, dir, search_key, start_offset, center_offset)
        ELSE IF search_key > center_key.val
             THEN bisect_and_descend(f, dir, search_key, center_offset, end_offset)
        ELSE Ok(center_offset)

\* binary_search_for_key that looks at the keys at both ends of the range
\* before it asks whether the range holds more than one record.
binary_search_for_key_reads_ends_first(f, dir, search_key, start_offset, end_offset) ==
    LET start_key == read_key(f, start_offset)
        end_key   == read_key(f, end_offset)
    IN  IF ~IsOk(start_key) THEN start_key
        ELSE IF search_key < start_key.val
             THEN IF dir # "Forward"
                  THEN Err("NotFound", "Search key is before the search range")
                  ELSE Ok(start_offset)
        ELSE IF search_key = start_key.val THEN Ok(start_offset)
        ELSE IF ~IsOk(end_key) THEN end_key
        ELSE IF search_key > end_key.val
             THEN IF dir # "Backward"
                  THEN Err("NotFound", "Search timestamp is after the search range")
                  ELSE Ok(end_offset)
        ELSE IF search_key = end_key.val THEN Ok(end_offset)
        ELSE IF start_offset = end_offset
        THEN Err("NotFound", "No items in search range")
        ELSE bisect_and_descend(f, dir, search_key, start_offset, end_offset)

binary_search_for_key(f, dir, search_key, start_offset, end_offset) ==
    LET start_key == read_key(f, start_offset)
        end_key   == read_key(f, end_offset)
    IN  IF start_offset = end_offset
        THEN Err("NotFound", "No items in search range")
        ELSE IF ~IsOk(start_key) THEN start_key
        ELSE IF search_key < start_key.val
             THEN IF dir # "Forward"
                  THEN Err("NotFound", "Search key is before the search range")
                  ELSE Ok(start_offset)
        ELSE IF search_key = start_key.val THEN Ok(start_offset)
        ELSE IF ~IsOk(end_key) THEN end_key
        ELSE IF search_key > end_key.val
             THEN IF dir # "Backward"
                  THEN Err("NotFound", "Search timestamp is after the search range")
                  ELSE Ok(end_offset)
        ELSE IF search_key = end_key.val THEN Ok(end_offset)
        ELSE bisect_and_descend(f, dir, search_key, start_offset, end_offset)

(***************************************************************************)
(* The pooling engine: PoolingOptions, Poolable for i32, gather_buckets.   *)
(***************************************************************************)
\* PoolingMethod, Option<GapFillMethod> and PoolingOptions.
PoolingMethods == {"End", "High", "Low", "Mean", "Start", "Sum"}
GapFillMethods == {"None", "Default", "Previous"}
PoolingOptions(interval, pooling, gap_fill) ==
    [interval |-> interval, pooling |-> pooling, gap_fill |-> gap_fill]

\* <i32 as Default>::default().
I32Default == 0

RECURSIVE sum(_)
\* <i32 as Poolable>::sum.  The sums of the values the model stores stay far
\* inside the i32 range.
sum(values) ==
    IF values = <<>> THEN 0 ELSE values[1] + sum(Tail(values))

\* <i32 as Poolable>::mean: the quotient computed in f32 and cast back to
\* i32, which truncates toward zero.
mean(values) ==
    LET s == sum(values)
        n == Len(values)
    IN  IF s >= 0 THEN s \div n ELSE -((-s) \div n)

\* The values of a bucket's records, and their greatest and least.
BucketValues(records) == [i \in 1..Len(records) |-> records[i][2]]
MaxValueOf(records) ==
    CHOOSE v \in {records[i][2] : i \in 1..Len(records)} :
        \A i \in 1..Len(records) : records[i][2] <= v
MinValueOf(records) ==
    CHOOSE v \in {records[i][2] : i \in 1..Len(records)} :
        \A i \in 1..Len(records) : records[i][2] >= v

\* record_count that leaves out the record at end_offset.
record_count_exclusive(start_offset, end_offset) == (end_offset - start_offset) \div ItemSize

\* gather_buckets' record_count: the records between the two offsets, the
\* one at end_offset included.
record_count(start_offset, end_offset) == (end_offset - start_offset) \div ItemSize + 1

\* conclude_bucket with Start always taking the bucket's first record.
conclude_bucket_start_is_first(bucket, values, last_record, pooling_options) ==
    IF bucket.records # <<>> THEN
        Append(values, <<bucket.start,
            CASE pooling_options.pooling = "End"   -> bucket.records[Len(bucket.records)][2]
              [] pooling_options.pooling = "High"  -> MaxValueOf(bucket.records)
              [] pooling_options.pooling = "Low"   -> MinValueOf(bucket.records)
              [] pooling_options.pooling = "Mean"  -> mean(BucketValues(bucket.records))
              [] pooling_options.pooling = "Start" -> bucket.records[1][2]
              [] pooling_options.pooling = "Sum"   -> sum(BucketValues(bucket.records))>>)
    ELSE IF pooling_options.gap_fill # "None" THEN
        Append(values, <<bucket.start,
            IF pooling_options.gap_fill = "Default" THEN I32Default ELSE last_record[2]>>)
    ELSE values

\* conclude_bucket whose High, Low, Mean and Sum look at the last record only.
conclude_bucket_last_only(bucket, values, last_record, pooling_options) ==
    IF bucket.records # <<>> THEN
        Append(values, <<bucket.start,
            IF pooling_options.pooling = "Start"
            THEN IF bucket.records[1][1] = bucket.start \/ pooling_options.gap_fill = "Default"
                 THEN bucket.records[1][2]
                 ELSE last_record[2]
            ELSE bucket.records[Len(bucket.records)][2]>>)
    ELSE IF pooling_options.gap_fill # "None" THEN
        Append(values, <<bucket.start,
            IF pooling_options.gap_fill = "Default" THEN I32Default ELSE last_record[2]>>)
    ELSE values

\* conclude_bucket that fills an empty bucket whatever gap_fill is.
conclude_bucket_always_fills(bucket, values, last_record, pooling_options) ==
    IF bucket.records # <<>> THEN
        Append(values, <<bucket.start,
            CASE pooling_options.pooling = "End"   -> bucket.records[Len(bucket.records)][2]
              [] pooling_options.pooling = "High"  -> MaxValueOf(bucket.records)
              [] pooling_options.pooling = "Low"   -> MinValueOf(bucket.records)
              [] pooling_options.pooling = "Mean"  -> mean(BucketValues(bucket.records))
              [] pooling_options.pooling = "Start" ->
                    IF bucket.records[1][1] = bucket.start \/ pooling_options.gap_fill = "Default"
                    THEN bucket.records[1][2]
                    ELSE last_record[2]
              [] pooling_options.pooling = "Sum"   -> sum(BucketValues(bucket.records))>>)
    ELSE Append(values, <<bucket.start,
            IF pooling_options.gap_fill = "Default" THEN I32Default ELSE last_record[2]>>)

\* conclude_bucket that never fills an empty bucket.
conclude_bucket_never_fills(bucket, values, last_record, pooling_options) ==
    IF bucket.records # <<>> THEN
        Append(values, <<bucket.start,
            CASE pooling_options.pooling = "End"   -> bucket.records[Len(bucket.records)][2]
              [] pooling_options.pooling = "High"  -> MaxValueOf(bucket.records)
              [] pooling_options.pooling = "Low"   -> MinValueOf(bucket.records)
              [] pooling_options.pooling = "Mean"  -> mean(BucketValues(bucket.records))
              [] pooling_options.pooling = "Start" ->
                    IF bucket.records[1][1] = bucket.start \/ pooling_options.gap_fill = "Default"
                    THEN bucket.records[1][2]
                    ELSE last_record[2]
              [] pooling_options.pooling = "Sum"   -> sum(BucketValues(bucket.records))>>)
    ELSE values

\* conclude_bucket: the entry of a bucket that is over, pushed onto values.
\* A bucket with records gives its pooled value; an empty one gives the gap
\* fill, or nothing when gap_fill is None.
conclude_bucket(bucket, values, last_record, pooling_options) ==
    IF bucket.records # <<>> THEN
        Append(values, <<bucket.start,
            CASE pooling_options.pooling = "End"   -> bucket.records[Len(bucket.records)][2]
              [] pooling_options.pooling = "High"  -> MaxValueOf(bucket.records)
              [] pooling_options.pooling = "Low"   -> MinValueOf(bucket.records)
              [] pooling_options.pooling = "Mean"  -> mean(BucketValues(bucket.records))
              [] pooling_options.pooling = "Start" ->
                    IF bucket.records[1][1] = bucket.start \/ pooling_options.gap_fill = "Default"
                    THEN bucket.records[1][2]
                    ELSE last_record[2]
              [] pooling_options.pooling = "Sum"   -> sum(BucketValues(bucket.records))>>)
    ELSE IF pooling_options.gap_fill # "None" THEN
        Append(values, <<bucket.start,
            IF pooling_options.gap_fill = "Default" THEN I32Default ELSE last_record[2]>>)
    ELSE values

\* A call that never returns: a loop whose condition stays true.
Diverges == [kind |-> "Diverges"]

\* struct Bucket.
Bucket(records, start, end) == [records |-> records, start |-> start, end |-> end]

RECURSIVE roll_forward(_, _, _, _, _)
\* The while loop of gather_buckets: empty buckets are concluded one after
\* another until the record's key is before bucket.end.  With interval = 0
\* bucket.end never moves and the loop never ends.
roll_forward(bucket, values, last_record, key, pooling_options) ==
    IF ~(bucket.end <= key) THEN [diverges |-> FALSE, bucket |-> bucket, values |-> values]
    ELSE IF pooling_options.interval = 0
    THEN [diverges |-> TRUE, bucket |-> bucket, values |-> values]
    ELSE roll_forward(Bucket(bucket.records, bucket.end, bucket.end + pooling_options.interval),
                      conclude_bucket(bucket, values, last_record, pooling_options),
                      last_record, key, pooling_options)

RECURSIVE gather_rest(_, _, _, _, _, _, _)
\* The for loop of gather_buckets with count iterations left, the next
\* record at byte offset off, and the final conclude_bucket after it.
gather_rest(f, off, count, bucket, values, last_record, pooling_options) ==
    IF count <= 0 THEN Ok(conclude_bucket(bucket, values, last_record, pooling_options))
    ELSE
        LET record == read_record(f, off)
        IN  IF ~IsOk(record) THEN record
            ELSE IF record.val[1] >= bucket.end THEN
                LET concluded == conclude_bucket(bucket, values, last_record, pooling_options)
                    last      == IF bucket.records # <<>>
                                 THEN bucket.records[Len(bucket.records)]
                                 ELSE last_record
                    rolled    == roll_forward(
                                     Bucket(<<>>, bucket.end, bucket.end + pooling_options.interval),
                                     concluded, last, record.val[1], pooling_options)
                IN  IF rolled.diverges THEN Diverges
                    ELSE gather_rest(f, off + ItemSize, count - 1,
                                     Bucket(<<record.val>>, rolled.bucket.start, rolled.bucket.end),
                                     rolled.values, last, pooling_options)
            ELSE gather_rest(f, off + ItemSize, count - 1,
                             Bucket(Append(bucket.records, record.val), bucket.start, bucket.end),
                             values, last_record, pooling_options)

\* gather_buckets reading from a reader positioned at byte offset pos.  The
\* u64 difference end_offset - start_offset panics with overflow checks on
\* when start_offset is the greater; no caller passes such offsets.
gather_buckets(f, pos, pooling_options, start_time, start_offset, end_offset) ==
    LET first_record == read_record(f, pos)
    IN  IF end_offset < start_offset THEN Panic
        ELSE IF ~IsOk(first_record) THEN first_record
        ELSE gather_rest(f, pos + ItemSize, record_count(start_offset, end_offset) - 1,
                         Bucket(IF first_record.val[1] = start_time
                                THEN <<first_record.val>> ELSE <<>>,
                                start_time, start_time + pooling_options.interval),
                         <<>>, first_record.val, pooling_options)

(***************************************************************************)
(* FileStorage<Timestamp, i32>.                                            *)
(***************************************************************************)
VARIABLES
    file,        \* the bytes of the file on disk
    opened,      \* TRUE while a FileStorage value over the file exists
    items,       \* FileStorage.items
    first_key,   \* FileStorage.first_key
    last_key,    \* FileStorage.last_key
    end_offset,  \* FileStorage.end_offset
    appended,    \* the (key, value) pairs of the store calls that returned Ok
    op,          \* the call that has just returned, with its arguments ("idle": none)
    res          \* what that call returned

vars == <<file, opened, items, first_key, last_key, end_offset, appended, op, res>>

\* The cached fields of a FileStorage value.
Fields(n, fk, lk, eo) ==
    [items |-> n, first_key |-> fk, last_key |-> lk, end_offset |-> eo]

\* new that does not seek to the last record before reading last_key.
new_last_key_from_start(f) ==
    LET end  == Len(f)
        fk   == read_key(f, 0)
        eo   == end - ItemSize
        lk   == read_key(f, 0)
    IN  IF end % ItemSize # 0
        THEN Err("InvalidData", "FileStorage file is an invalid size")
        ELSE IF end >= ItemSize
        THEN IF ~IsOk(fk) THEN fk
             ELSE IF ~IsOk(lk) THEN lk
             ELSE Ok(Fields(end \div ItemSize, fk.val, lk.val, eo))
        ELSE Ok(Fields(end \div ItemSize, 0, 0, 0))

\* new without the check of the file's length.
new_accepts_any_size(f) ==
    LET end  == Len(f)
        fk   == read_key(f, 0)
        eo   == end - ItemSize
        lk   == read_key(f, eo)
    IN  IF end >= ItemSize
        THEN IF ~IsOk(fk) THEN fk
             ELSE IF ~IsOk(lk) THEN lk
             ELSE Ok(Fields(end \div ItemSize, fk.val, lk.val, eo))
        ELSE Ok(Fields(end \div ItemSize, 0, 0, 0))

\* FileStorage::new on a file with contents f.
new(f) ==
    LET end  == Len(f)
        fk   == read_key(f, 0)
        eo   == end - ItemSize
        lk   == read_key(f, eo)
    IN  IF end % ItemSize # 0
        THEN Err("InvalidData", "FileStorage file is an invalid size")
        ELSE IF end >= ItemSize
        THEN IF ~IsOk(fk) THEN fk
             ELSE IF ~IsOk(lk) THEN lk
             ELSE Ok(Fields(end \div ItemSize, fk.val, lk.val, eo))
        ELSE Ok(Fields(end \div ItemSize, 0, 0, 0))

\* Box<Data> arguments: a value of the expected type, or of another type.
TimestampData(k) == [ty |-> "Timestamp", v |-> k]
I32Data(v)       == [ty |-> "i32", v |-> v]
OtherData        == [ty |-> "other", v |-> 0]

\* The successful branch of store, shared by store and its variants below.
store_ok(f, st, key, value) ==
    [res  |-> Ok(<<>>),
     file |-> write_record(f, key.v, value.v),
     st   |-> Fields(st.items + 1,
                     IF st.items = 0 THEN key.v ELSE st.first_key,
                     key.v,
                     IF st.items = 0 THEN st.end_offset
                     ELSE st.end_offset + ItemSize)]

store_err(f, st, m) == [res |-> Err("InvalidInput", m), file |-> f, st |-> st]

\* store whose monotonicity check lets a key equal to last_key through.
store_accepts_equal_key(f, st, key, value) ==
    IF key.ty # "Timestamp"
    THEN store_err(f, st, "FileStorage was passed the wrong kind of key")
    ELSE IF st.items > 0 /\ key.v < st.last_key
    THEN store_err(f, st, "Passed key was equal to or before the last recorded key")
    ELSE IF value.ty = "i32" THEN store_ok(f, st, key, value)
    ELSE store_err(f, st, "FileStorage was passed the wrong kind of data")

\* store whose monotonicity check compares with first_key.
store_checks_first_key(f, st, key, value) ==
    IF key.ty # "Timestamp"
    THEN store_err(f, st, "FileStorage was passed the wrong kind of key")
    ELSE IF st.items > 0 /\ key.v <= st.first_key
    THEN store_err(f, st, "Passed key was equal to or before the last recorded key")
    ELSE IF value.ty = "i32" THEN store_ok(f, st, key, value)
    ELSE store_err(f, st, "FileStorage was passed the wrong kind of data")

\* store that records the key as last_key before it looks at the value.
store_updates_before_value_check(f, st, key, value) ==
    IF key.ty # "Timestamp"
    THEN store_err(f, st, "FileStorage was passed the wrong kind of key")
    ELSE IF st.items > 0 /\ key.v <= st.last_key
    THEN store_err(f, st, "Passed key was equal to or before the last recorded key")
    ELSE IF value.ty = "i32" THEN store_ok(f, st, key, value)
    ELSE store_err(f, Fields(st.items, st.first_key, key.v, st.end_offset),
                   "FileStorage was passed the wrong kind of data")

\* KeyValueStore::store: the result, and the file and fields it leaves.
store(f, st, key, value) ==
    IF key.ty # "Timestamp"
    THEN store_err(f, st, "FileStorage was passed the wrong kind of key")
    ELSE IF st.items > 0 /\ key.v <= st.last_key
    THEN store_err(f, st, "Passed key was equal to or before the last recorded key")
    ELSE IF value.ty = "i32" THEN store_ok(f, st, key, value)
    ELSE store_err(f, st, "FileStorage was passed the wrong kind of data")

\* Write::write with the file cursor at byte offset pos: the bytes take the
\* place of what is there and lengthen the file past its end.
write_at(f, pos, bytes) ==
    SubSeq(f, 1, pos) \o bytes \o SubSeq(f, pos + Len(bytes) + 1, Len(f))

\* Write::write on a file opened with append(true): the cursor is moved to
\* the end of the file before the bytes are written, wherever it was.
write_appending(f, pos, bytes) == write_at(f, Len(f), bytes)

\* The bytes of one record, as write_record buffers them.
record_bytes(key, value) == write_record(<<>>, key, value)

\* store on a file opened without append(true) and with no seek to the end:
\* the record is written where the cursor is.
store_at_cursor(f, cursor, st, key, value) ==
    IF key.ty # "Timestamp"
    THEN store_err(f, st, "FileStorage was passed the wrong kind of key")
    ELSE IF st.items > 0 /\ key.v <= st.last_key
    THEN store_err(f, st, "Passed key was equal to or before the last recorded key")
    ELSE IF value.ty = "i32"
    THEN [store_ok(f, st, key, value) EXCEPT
              !.file = write_at(f, cursor, record_bytes(key.v, value.v))]
    ELSE store_err(f, st, "FileStorage was passed the wrong kind of data")

\* KeyValueStore::store with the file cursor where the call before left it:
\* seek(SeekFrom::End(0)), then write_record on the file new opened with
\* append(true).
store_at(f, cursor, st, key, value) ==
    IF key.ty # "Timestamp"
    THEN store_err(f, st, "FileStorage was passed the wrong kind of key")
    ELSE IF st.items > 0 /\ key.v <= st.last_key
    THEN store_err(f, st, "Passed key was equal to or before the last recorded key")
    ELSE IF value.ty = "i32"
    THEN LET end == Len(f)
         IN  [store_ok(f, st, key, value) EXCEPT
                  !.file = write_appending(f, end, record_bytes(key.v, value.v))]
    ELSE store_err(f, st, "FileStorage was passed the wrong kind of data")

\* KeyValueStore::len
len == items

\* The FileStorage value the variables hold.
self == Fields(items, first_key, last_key, end_offset)

\* find_to that keeps the record whose key equals search_key.
find_to_inclusive(f, st, search_key) ==
    LET to_offset == binary_search_for_key(f, "Backward", search_key, 0, st.end_offset)
        to_key    == read_key(f, to_offset.val)
    IN  IF ~IsOk(to_offset) THEN to_offset
        ELSE IF ~IsOk(to_key) THEN to_key
        ELSE to_offset

\* FileStorage::find_to: the offset of the last record before search_key.
find_to(f, st, search_key) ==
    LET to_offset == binary_search_for_key(f, "Backward", search_key, 0, st.end_offset)
        to_key    == read_key(f, to_offset.val)
    IN  IF ~IsOk(to_offset) THEN to_offset
        ELSE IF ~IsOk(to_key) THEN to_key
        ELSE IF to_key.val # search_key THEN to_offset
        ELSE IF to_offset.val > 0 THEN Ok(to_offset.val - ItemSize)
        ELSE Err("InvalidInput", "find_to search key was equal to the first record")

(***************************************************************************)
(* impl TimeSeries for FileStorage<Timestamp, V>.                          *)
(***************************************************************************)
\* Vec::with_capacity(n) where n is a usize difference hi - lo: with lo > hi
\* the subtraction panics when overflow checks are on and otherwise wraps to
\* a capacity that with_capacity rejects with a panic; both builds abort.
CapacityPanics(hi, lo) == lo > hi

retrieve_nearest(f, st, timestamp, dir) ==
    LET record_offset == binary_search_for_key(f, dir, timestamp, 0, st.end_offset)
    IN  IF ~IsOk(record_offset) THEN record_offset
        ELSE read_record(f, record_offset.val)

\* retrieve_all whose loop stops one record early.
retrieve_all_one_short(f, st) == read_records(f, 0, st.items - 1)

retrieve_all(f, st) == read_records(f, 0, st.items)

\* retrieve_from that locates its first record searching backward.
retrieve_from_backward(f, st, timestamp) ==
    LET from_offset == binary_search_for_key(f, "Backward", timestamp, 0, st.end_offset)
        from_item   == from_offset.val \div ItemSize
    IN  IF ~(timestamp <= st.last_key) THEN Ok(<<>>)
        ELSE IF ~IsOk(from_offset) THEN from_offset
        ELSE IF CapacityPanics(st.items, from_item) THEN Panic
        ELSE read_records(f, from_offset.val, st.items - from_item)

retrieve_from(f, st, timestamp) ==
    LET from_offset == binary_search_for_key(f, "Forward", timestamp, 0, st.end_offset)
        from_item   == from_offset.val \div ItemSize
    IN  IF ~(timestamp <= st.last_key) THEN Ok(<<>>)
        ELSE IF ~IsOk(from_offset) THEN from_offset
        ELSE IF CapacityPanics(st.items, from_item) THEN Panic
        ELSE read_records(f, from_offset.val, st.items - from_item)

\* The match on find_to's result that retrieve_to and retrieve_range share:
\* InvalidInput and NotFound become an empty result.
FindToOrEmpty(r) ==
    IF IsOk(r) THEN [done |-> FALSE, res |-> r]
    ELSE IF r.kind \in {"InvalidInput", "NotFound"} THEN [done |-> TRUE, res |-> Ok(<<>>)]
    ELSE [done |-> TRUE, res |-> r]

\* retrieve_to that takes find_to's offset for the number of records.
retrieve_to_without_last(f, st, timestamp) ==
    LET to      == FindToOrEmpty(find_to(f, st, timestamp))
        to_item == to.res.val \div ItemSize
    IN  IF to.done THEN to.res
        ELSE read_records(f, 0, to_item)

retrieve_to(f, st, timestamp) ==
    LET to      == FindToOrEmpty(find_to(f, st, timestamp))
        to_item == to.res.val \div ItemSize + 1
    IN  IF to.done THEN to.res
        ELSE read_records(f, 0, to_item)

retrieve_range(f, st, start, end) ==
    LET from_offset == binary_search_for_key(f, "Forward", start, 0, st.end_offset)
        to          == FindToOrEmpty(find_to(f, st, end))
        from_item   == from_offset.val \div ItemSize
        to_item     == to.res.val \div ItemSize + 1
    IN  IF ~(start <= st.last_key) THEN Ok(<<>>)
        ELSE IF ~IsOk(from_offset) THEN from_offset
        ELSE IF to.done THEN to.res
        ELSE IF CapacityPanics(to_item, from_item) THEN Panic
        ELSE read_records(f, from_offset.val, to_item - from_item)

(***************************************************************************)
(* FileStorage::find_from, and impl PooledTimeSeries for                   *)
(* FileStorage<Timestamp, V> with V = i32.                                 *)
(***************************************************************************)
Max(a, b) == IF a >= b THEN a ELSE b

\* find_from that takes the located record's key for the start time.
find_from_located_key(f, st, search_key) ==
    LET from_offset == IF search_key >= st.first_key
                       THEN binary_search_for_key(f, "Backward", search_key, 0, st.end_offset)
                       ELSE Ok(0)
        key         == read_key(f, from_offset.val)
    IN  IF ~IsOk(from_offset) THEN from_offset
        ELSE IF ~IsOk(key) THEN key
        ELSE Ok(<<key.val, from_offset.val>>)

\* FileStorage::find_from: the offset of the last record at or before
\* search_key (the first record when search_key is before it), paired with
\* the greater of that record's key and search_key.
find_from(f, st, search_key) ==
    LET from_offset == IF search_key >= st.first_key
                       THEN binary_search_for_key(f, "Backward", search_key, 0, st.end_offset)
                       ELSE Ok(0)
        key         == read_key(f, from_offset.val)
    IN  IF ~IsOk(from_offset) THEN from_offset
        ELSE IF ~IsOk(key) THEN key
        ELSE Ok(<<Max(key.val, search_key), from_offset.val>>)

\* What a pool operation hands to gather_buckets: the position it seeks to,
\* the start time and the two offsets; or, when it returns before gathering,
\* the result it returns.
Gather(pos, start_time, from_offset, to_offset) ==
    [done |-> FALSE, pos |-> pos, start_time |-> start_time,
     start_offset |-> from_offset, end_offset |-> to_offset]
Returned(r) == [done |-> TRUE, res |-> r]

\* The match on find_to's result in pool_to and pool_range: only the
\* InvalidInput of a search key equal to the first record becomes an empty
\* result.
FindToOrEmptyPool(r) ==
    IF IsOk(r) THEN [done |-> FALSE, res |-> r]
    ELSE IF r.kind = "InvalidInput"
            /\ r.msg = "find_to search key was equal to the first record"
    THEN [done |-> TRUE, res |-> Ok(<<>>)]
    ELSE [done |-> TRUE, res |-> r]

pool_all_scan(f, st) == Gather(0, st.first_key, 0, st.end_offset)

pool_from_scan(f, st, timestamp) ==
    LET from == find_from(f, st, timestamp)
    IN  IF ~IsOk(from) THEN Returned(from)
        ELSE Gather(from.val[2], from.val[1], from.val[2], st.end_offset)

\* pool_to that keeps the record whose key equals the timestamp.
pool_to_scan_inclusive(f, st, timestamp) ==
    LET to == FindToOrEmptyPool(find_to_inclusive(f, st, timestamp))
    IN  IF to.done THEN Returned(to.res)
        ELSE Gather(0, st.first_key, 0, to.res.val)

pool_to_scan(f, st, timestamp) ==
    LET to == FindToOrEmptyPool(find_to(f, st, timestamp))
    IN  IF to.done THEN Returned(to.res)
        ELSE Gather(0, st.first_key, 0, to.res.val)

pool_range_scan(f, st, start, end) ==
    LET from == find_from(f, st, start)
        to   == FindToOrEmptyPool(find_to(f, st, end))
    IN  IF ~IsOk(from) THEN Returned(from)
        ELSE IF to.done THEN Returned(to.res)
        ELSE IF to.res.val - from.val[2] < ItemSize THEN Returned(Ok(<<>>))
        ELSE Gather(from.val[2], from.val[1], from.val[2], to.res.val)

\* The rest of a pool operation: gather_buckets over what was located.
Pooled(f, scan, pooling_options) ==
    IF scan.done THEN scan.res
    ELSE gather_buckets(f, scan.pos, pooling_options,
                        scan.start_time, scan.start_offset, scan.end_offset)

pool_all(f, st, pooling_options) == Pooled(f, pool_all_scan(f, st), pooling_options)

pool_from(f, st, timestamp, pooling_options) ==
    Pooled(f, pool_from_scan(f, st, timestamp), pooling_options)

pool_to(f, st, timestamp, pooling_options) ==
    Pooled(f, pool_to_scan(f, st, timestamp), pooling_options)

pool_range(f, st, start, end, pooling_options) ==
    Pooled(f, pool_range_scan(f, st, start, end), pooling_options)

(***************************************************************************)
(* gather_buckets one loop iteration at a time.                            *)
(***************************************************************************)
RECURSIVE reads_ahead(_, _, _)
\* What the next count calls of read_record give on the BufReader that is
\* at byte offset off: the records in turn, up to the first call that fails.
reads_ahead(f, off, count) ==
    IF count <= 0 THEN <<>>
    ELSE LET record == read_record(f, off)
         IN  IF ~IsOk(record) THEN <<record>>
             ELSE <<record>> \o reads_ahead(f, off + ItemSize, count - 1)

\* A call inside gather_buckets: at the top of the for loop (pc = "for") or
\* at the test of the while loop (pc = "while") with the record just read;
\* iter for-loop iterations have begun out of count - 1, reads is what the
\* reads to come give, and rolls buckets were passed for this record.
Running(pc, iter, count, reads, bucket, values, last_record, record, rolls) ==
    [kind |-> "Running", pc |-> pc, iter |-> iter, count |-> count, reads |-> reads,
     bucket |-> bucket, values |-> values, last_record |-> last_record,
     record |-> record, rolls |-> rolls]

\* bucket.start = bucket.end with bucket.end left where it is.
next_bucket_same_end(bucket, pooling_options) ==
    Bucket(<<>>, bucket.end, bucket.end)

\* bucket.start = bucket.end; bucket.end += pooling_options.interval, on a
\* bucket whose records were cleared.
next_bucket(bucket, pooling_options) ==
    Bucket(<<>>, bucket.end, bucket.end + pooling_options.interval)

\* gather_buckets up to its for loop.
gather_begin(f, pos, pooling_options, start_time, from_offset, to_offset) ==
    LET first_record == read_record(f, pos)
        count        == record_count(from_offset, to_offset)
    IN  IF to_offset < from_offset THEN Panic
        ELSE IF ~IsOk(first_record) THEN first_record
        ELSE Running("for", 0, count, reads_ahead(f, pos + ItemSize, count - 1),
                     Bucket(IF first_record.val[1] = start_time
                            THEN <<first_record.val>> ELSE <<>>,
                            start_time, start_time + pooling_options.interval),
                     <<>>, first_record.val, first_record.val, 0)

\* One iteration of the for loop, up to the test of the while loop when the
\* record does not fit in the bucket.
for_step(s, pooling_options) ==
    LET record == Head(s.reads)
    IN  IF ~IsOk(record) THEN record
        ELSE IF record.val[1] >= s.bucket.end
        THEN Running("while", s.iter + 1, s.count, Tail(s.reads),
                     next_bucket(s.bucket, pooling_options),
                     conclude_bucket(s.bucket, s.values, s.last_record, pooling_options),
                     IF s.bucket.records # <<>>
                     THEN s.bucket.records[Len(s.bucket.records)] ELSE s.last_record,
                     record.val, 0)
        ELSE Running("for", s.iter + 1, s.count, Tail(s.reads),
                     Bucket(Append(s.bucket.records, record.val),
                            s.bucket.start, s.bucket.end),
                     s.values, s.last_record, record.val, 0)

\* The test of the while loop and, when it holds, one iteration of it; when
\* it fails the record is pushed and the for loop goes on.
while_step(s, pooling_options) ==
    IF s.bucket.end <= s.record[1]
    THEN Running("while", s.iter, s.count, s.reads,
                 next_bucket(s.bucket, pooling_options),
                 conclude_bucket(s.bucket, s.values, s.last_record, pooling_options),
                 s.last_record, s.record, s.rolls + 1)
    ELSE Running("for", s.iter, s.count, s.reads,
                 Bucket(Append(s.bucket.records, s.record), s.bucket.start, s.bucket.end),
                 s.values, s.last_record, s.record, 0)

\* The conclude_bucket after the for loop, and the return.
gather_end(s, pooling_options) ==
    Ok(conclude_bucket(s.bucket, s.values, s.last_record, pooling_options))

(***************************************************************************)
(* The inputs the model offers.                                            *)
(***************************************************************************)
Keys       == 0..MaxKey
Values     == 0..MaxValue
\* Timestamps given to the reads: every key, and one past the largest.
Timestamps == 0..(MaxKey + 1)
KeyInputs   == {TimestampData(k) : k \in Keys} \cup {OtherData}
ValueInputs == {I32Data(v) : v \in Values} \cup {OtherData}
\* An i32 whose text is one byte wider than V::size().
WideValue == 10 ^ I32_SIZE
WideValueInputs == ValueInputs \cup {I32Data(WideValue)}
\* i32 values of every width format!("{:4}") gives them: 4 bytes, and the
\* 9 and 11 bytes of two negative numbers.
WidthValueInputs ==
    {I32Data(0), I32Data(0 - 10 ^ 7), I32Data(0 - 10 ^ 9), OtherData}
\* The PoolingOptions given to the pool operations: every pooling method and
\* gap fill, with the bucket widths 1..MaxInterval.
Intervals == 1..MaxInterval
PoolingOptionsInputs ==
    {PoolingOptions(i, p, g) : i \in Intervals, p \in PoolingMethods, g \in GapFillMethods}
\* impl Default for PoolingOptions: interval 0, pooling End, no gap fill.
PoolingOptionsDefault == PoolingOptions(0, "End", "None")
\* The PoolingOptions with the default interval, 0: the default itself and
\* every other pooling method and gap fill set over it with
\* `..PoolingOptions::default()`.
ZeroIntervalInputs ==
    {PoolingOptions(PoolingOptionsDefault.interval, p, g) :
         p \in PoolingMethods, g \in GapFillMethods}

\* The files given to FileStorage::new: every run of consecutive bytes of a
\* file of two records, which gives files of every length from 0 to two
\* records, whole records and records cut anywhere.
TwoRecordFiles ==
    {write_record(write_record(<<>>, k1, v1), k2, v2) :
         k1 \in Keys, k2 \in Keys, v1 \in Values, v2 \in Values}
FileInputs ==
    UNION {{SubSeq(c, i, j) : i \in 1..(Len(c) + 1), j \in 0..Len(c)} :
               c \in TwoRecordFiles}

\* Where a call can leave the file cursor: at the start of a record (seek,
\* read_record, a read to the end of the file) or after a key (read_key).
Cursors(f) == {pos \in 0..Len(f) : pos % ItemSize \in {0, KSize}}

(***************************************************************************)
(* The state machine: one action per call on the store.                    *)
(***************************************************************************)
Init ==
    /\ file = <<>>
    /\ opened = TRUE
    /\ items = new(<<>>).val.items
    /\ first_key = new(<<>>).val.first_key
    /\ last_key = new(<<>>).val.last_key
    /\ end_offset = new(<<>>).val.end_offset
    /\ appended = <<>>
    /\ op = [name |-> "new"]
    /\ res = Ok(<<>>)

\* The store is used by one caller at a time: a call is made once the caller
\* is done with the result of the previous one.
Idle == [name |-> "idle"]
CanCall == opened /\ op = Idle

\* A call of store, on a store that is offered at most cap records.
StoreOpUpTo(key, value, cap) ==
    LET r == store(file, self, key, value)
    IN  /\ CanCall
        /\ IsOk(r.res) => items < cap
        /\ file' = r.file
        /\ items' = r.st.items
        /\ first_key' = r.st.first_key
        /\ last_key' = r.st.last_key
        /\ end_offset' = r.st.end_offset
        /\ appended' = IF IsOk(r.res) THEN Append(appended, <<key.v, value.v>>)
                       ELSE appended
        /\ op' = [name |-> "store", key |-> key, value |-> value]
        /\ res' = r.res
        /\ UNCHANGED opened

StoreOp(key, value) == StoreOpUpTo(key, value, MaxItems)

Store == \E key \in KeyInputs, value \in ValueInputs : StoreOp(key, value)

\* mem::drop(fs) followed by FileStorage::new on the same file.
Reopen ==
    LET r == new(file)
    IN  /\ CanCall
        /\ opened' = IsOk(r)
        /\ items' = IF IsOk(r) THEN r.val.items ELSE items
        /\ first_key' = IF IsOk(r) THEN r.val.first_key ELSE first_key
        /\ last_key' = IF IsOk(r) THEN r.val.last_key ELSE last_key
        /\ end_offset' = IF IsOk(r) THEN r.val.end_offset ELSE end_offset
        /\ op' = [name |-> "reopen"]
        /\ res' = IF IsOk(r) THEN Ok(<<>>) ELSE r
        /\ UNCHANGED <<file, appended>>

\* A read: it returns a result and leaves the file and the fields alone.
Read(o, r) ==
    /\ CanCall
    /\ op' = o
    /\ res' = r
    /\ UNCHANGED <<file, opened, items, first_key, last_key, end_offset, appended>>

RetrieveNearest ==
    \E ts \in Timestamps, dir \in Directions :
        Read([name |-> "retrieve_nearest", ts |-> ts, dir |-> dir],
             retrieve_nearest(file, self, ts, dir))

RetrieveAll == Read([name |-> "retrieve_all"], retrieve_all(file, self))

RetrieveFrom ==
    \E ts \in Timestamps :
        Read([name |-> "retrieve_from", ts |-> ts], retrieve_from(file, self, ts))

RetrieveTo ==
    \E ts \in Timestamps :
        Read([name |-> "retrieve_to", ts |-> ts], retrieve_to(file, self, ts))

RetrieveRange ==
    \E start \in Timestamps, end \in Timestamps :
        Read([name |-> "retrieve_range", start |-> start, end |-> end],
             retrieve_range(file, self, start, end))

\* The caller takes the result; after a panic there is no caller left, a
\* call that diverges never gives one and a call that is running has not
\* given it yet.
Return ==
    /\ op # Idle
    /\ res.kind # "Panic"
    /\ res.kind # "Diverges"
    /\ res.kind # "Running"
    /\ op' = Idle
    /\ res' = Ok(<<>>)
    /\ UNCHANGED <<file, opened, items, first_key, last_key, end_offset, appended>>

Next ==
    \/ Return
    \/ Store
    \/ Reopen
    \/ RetrieveNearest
    \/ RetrieveAll
    \/ RetrieveFrom
    \/ RetrieveTo
    \/ RetrieveRange

Spec == Init /\ [][Next]_vars

\* The same store offered every i32 it accepts, also one wider than V::size().
StoreWide == \E key \in KeyInputs, value \in WideValueInputs : StoreOp(key, value)

NextWide ==
    \/ Return
    \/ StoreWide
    \/ Reopen

SpecWide == Init /\ [][NextWide]_vars

\* The same store offered values of several widths, and one record more.
StoreWidths ==
    \E key \in KeyInputs, value \in WidthValueInputs :
        StoreOpUpTo(key, value, MaxItems + 1)

NextWidths ==
    \/ Return
    \/ StoreWidths
    \/ Reopen

SpecWidths == Init /\ [][NextWidths]_vars

\* The pool operations are reads as well.
PoolAll ==
    /\ CanCall
    /\ \E o \in PoolingOptionsInputs :
           Read([name |-> "pool_all", options |-> o], pool_all(file, self, o))

PoolFrom ==
    /\ CanCall
    /\ \E ts \in Timestamps, o \in PoolingOptionsInputs :
           Read([name |-> "pool_from", ts |-> ts, options |-> o],
                pool_from(file, self, ts, o))

PoolTo ==
    /\ CanCall
    /\ \E ts \in Timestamps, o \in PoolingOptionsInputs :
           Read([name |-> "pool_to", ts |-> ts, options |-> o],
                pool_to(file, self, ts, o))

PoolRange ==
    /\ CanCall
    /\ \E start \in Timestamps, end \in Timestamps, o \in PoolingOptionsInputs :
           Read([name |-> "pool_range", start |-> start, end |-> end, options |-> o],
                pool_range(file, self, start, end, o))

\* The store used as a pooled time series: records are appended and pooled.
NextPool ==
    \/ Return
    \/ Store
    \/ PoolAll
    \/ PoolFrom
    \/ PoolTo
    \/ PoolRange

SpecPool == Init /\ [][NextPool]_vars

\* The same store pooled with pool_all only, and with pool_to only.
NextPoolAll ==
    \/ Return
    \/ Store
    \/ PoolAll

SpecPoolAll == Init /\ [][NextPoolAll]_vars

NextPoolTo ==
    \/ Return
    \/ Store
    \/ PoolTo

SpecPoolTo == Init /\ [][NextPoolTo]_vars

\* The pool operations called with interval 0.
PoolAllZero ==
    /\ CanCall
    /\ \E o \in ZeroIntervalInputs :
           Read([name |-> "pool_all", options |-> o], pool_all(file, self, o))

PoolFromZero ==
    /\ CanCall
    /\ \E ts \in Timestamps, o \in ZeroIntervalInputs :
           Read([name |-> "pool_from", ts |-> ts, options |-> o],
                pool_from(file, self, ts, o))

PoolToZero ==
    /\ CanCall
    /\ \E ts \in Timestamps, o \in ZeroIntervalInputs :
           Read([name |-> "pool_to", ts |-> ts, options |-> o],
                pool_to(file, self, ts, o))

PoolRangeZero ==
    /\ CanCall
    /\ \E start \in Timestamps, end \in Timestamps, o \in ZeroIntervalInputs :
           Read([name |-> "pool_range", start |-> start, end |-> end, options |-> o],
                pool_range(file, self, start, end, o))

NextPoolZero ==
    \/ Return
    \/ Store
    \/ PoolAllZero
    \/ PoolFromZero
    \/ PoolToZero
    \/ PoolRangeZero

SpecPoolZero == Init /\ [][NextPoolZero]_vars

\* FileStorage::new on a file that is already on disk, in the place of the
\* new file of Init.  When it fails there is no store.
OpenFile ==
    /\ op = Idle
    /\ file = <<>>
    /\ \E f \in FileInputs :
           LET r == new(f)
           IN  /\ file' = f
               /\ opened' = IsOk(r)
               /\ items' = IF IsOk(r) THEN r.val.items ELSE 0
               /\ first_key' = IF IsOk(r) THEN r.val.first_key ELSE 0
               /\ last_key' = IF IsOk(r) THEN r.val.last_key ELSE 0
               /\ end_offset' = IF IsOk(r) THEN r.val.end_offset ELSE 0
               /\ appended' = <<>>
               /\ op' = [name |-> "open"]
               /\ res' = IF IsOk(r) THEN Ok(<<>>) ELSE r

NextOpen ==
    \/ Return
    \/ OpenFile

SpecOpen == Init /\ [][NextOpen]_vars

\* The reads of TimeSeries and PooledTimeSeries.
ReadNames ==
    {"retrieve_nearest", "retrieve_all", "retrieve_from", "retrieve_to", "retrieve_range",
     "pool_all", "pool_from", "pool_to", "pool_range"}

\* A call of store with the file cursor where the reads made before it have
\* left it.
StoreAfterRead ==
    /\ CanCall
    /\ \E key \in KeyInputs, value \in ValueInputs, cursor \in Cursors(file) :
           LET r == store_at(file, cursor, self, key, value)
           IN  /\ IsOk(r.res) => items < MaxItems
               /\ file' = r.file
               /\ items' = r.st.items
               /\ first_key' = r.st.first_key
               /\ last_key' = r.st.last_key
               /\ end_offset' = r.st.end_offset
               /\ appended' = IF IsOk(r.res) THEN Append(appended, <<key.v, value.v>>)
                              ELSE appended
               /\ op' = [name |-> "store", key |-> key, value |-> value,
                         cursor |-> cursor]
               /\ res' = r.res
               /\ UNCHANGED opened

NextFrame ==
    \/ Return
    \/ RetrieveNearest
    \/ RetrieveAll
    \/ RetrieveFrom
    \/ RetrieveTo
    \/ RetrieveRange
    \/ PoolAll
    \/ PoolFrom
    \/ PoolTo
    \/ PoolRange
    \/ StoreAfterRead

SpecFrame == Init /\ [][NextFrame]_vars

\* The pool operations taken one loop iteration at a time: the call locates
\* its records and enters gather_buckets, the loops run, the call returns.
Begin(o, scan) ==
    Read(o, IF scan.done THEN scan.res
            ELSE gather_begin(file, scan.pos, o.options,
                              scan.start_time, scan.start_offset, scan.end_offset))

PoolAllBegin ==
    /\ CanCall
    /\ \E o \in PoolingOptionsInputs :
           Begin([name |-> "pool_all", options |-> o], pool_all_scan(file, self))

PoolFromBegin ==
    /\ CanCall
    /\ \E ts \in Timestamps, o \in PoolingOptionsInputs :
           Begin([name |-> "pool_from", ts |-> ts, options |-> o],
                 pool_from_scan(file, self, ts))

PoolToBegin ==
    /\ CanCall
    /\ \E ts \in Timestamps, o \in PoolingOptionsInputs :
           Begin([name |-> "pool_to", ts |-> ts, options |-> o],
                 pool_to_scan(file, self, ts))

PoolRangeBegin ==
    /\ CanCall
    /\ \E start \in Timestamps, end \in Timestamps, o \in PoolingOptionsInputs :
           Begin([name |-> "pool_range", start |-> start, end |-> end, options |-> o],
                 pool_range_scan(file, self, start, end))

InGather(pc) == opened /\ res.kind = "Running" /\ res.pc = pc

\* for _ in 1..record_count: one iteration.
ForStep ==
    /\ InGather("for")
    /\ res.iter < res.count - 1
    /\ res' = for_step(res, op.options)
    /\ UNCHANGED <<file, opened, items, first_key, last_key, end_offset, appended, op>>

\* while bucket.end <= record.0: the test, and one iteration.
WhileStep ==
    /\ InGather("while")
    /\ res' = while_step(res, op.options)
    /\ UNCHANGED <<file, opened, items, first_key, last_key, end_offset, appended, op>>

\* The for loop is over.
GatherEnd ==
    /\ InGather("for")
    /\ ~(res.iter < res.count - 1)
    /\ res' = gather_end(res, op.options)
    /\ UNCHANGED <<file, opened, items, first_key, last_key, end_offset, appended, op>>

NextGather ==
    \/ Return
    \/ Store
    \/ PoolAllBegin
    \/ PoolFromBegin
    \/ PoolToBegin
    \/ PoolRangeBegin
    \/ ForStep
    \/ WhileStep
    \/ GatherEnd

SpecGather == Init /\ [][NextGather]_vars

\* A call that has begun keeps running: nothing else uses the thread it is
\* on, so a loop step that can be taken is taken.
SpecGatherFair ==
    /\ SpecGather
    /\ WF_vars(ForStep)
    /\ WF_vars(WhileStep)
    /\ WF_vars(GatherEnd)


(***************************************************************************)
(* Properties.                                                             *)
(***************************************************************************)
\* What the store holds, from the calls that succeeded.
NumAppended == Len(appended)
StoredKeys  == {appended[i][1] : i \in 1..NumAppended}
LastStored  == appended[NumAppended]
\* A step that is a call of store.
StoreStep == op = Idle /\ op'.name = "store"
\* The records of a sequence whose key lies in lo..(hi - 1), in order.
RecordsIn(recs, lo, hi) ==
    LET InWindow(r) == lo <= r[1] /\ r[1] < hi
    IN  SelectSeq(recs, InWindow)

\* C1: on a store that already holds a record, store(k, v) with k <= last_key
\* (k = last_key included) returns an InvalidInput error; on an empty store
\* every key is accepted.
C1_StoreRejectsKeyNotAfterLast ==
    [][StoreStep /\ op'.key.ty = "Timestamp" =>
          /\ (NumAppended > 0 /\ op'.key.v <= LastStored[1]) =>
                 res' = Err("InvalidInput",
                            "Passed key was equal to or before the last recorded key")
          /\ (NumAppended = 0 /\ op'.value.ty = "i32") => IsOk(res')
      ]_vars

\* C1 witness: a store of a key equal to the last stored key was rejected.
C1_Witness ==
    /\ op.name = "store"
    /\ NumAppended > 0
    /\ op.key = TimestampData(LastStored[1])
    /\ res.kind = "InvalidInput"

\* C2: retrieve_all returns exactly the (key, value) pairs of the store
\* calls that succeeded so far, in the order they were made, whatever failed
\* stores, reads and reopenings came in between.
C2_RetrieveAllIsAppended ==
    op.name = "retrieve_all" => res = Ok(appended)

\* C2 witness: retrieve_all on a store holding three records or more.
C2_Witness ==
    /\ op.name = "retrieve_all"
    /\ NumAppended >= 3
    /\ IsOk(res)

\* C3: after n successful store calls starting from an empty file the file
\* is exactly n * item_size bytes long, for every key and every value the
\* store accepts.
C3_FileLengthIsItemsTimesItemSize ==
    Len(file) = NumAppended * ItemSize

\* C4: reopening the file of a store after n >= 1 successful appends gives
\* the cached state it had: items = n, first_key = k1, last_key = kn,
\* end_offset = (n - 1) * item_size; store with a key <= kn still fails
\* with InvalidInput.
C4_ReopenRecoversState ==
    (op.name = "reopen" /\ NumAppended >= 1) =>
        /\ IsOk(res)
        /\ opened
        /\ items = NumAppended
        /\ first_key = appended[1][1]
        /\ last_key = LastStored[1]
        /\ end_offset = (NumAppended - 1) * ItemSize
        /\ \A k \in 0..LastStored[1], v \in ValueInputs :
               store(file, self, TimestampData(k), v).res.kind = "InvalidInput"

\* C4 witness: a store holding two records or more has been reopened.
C4_Witness ==
    /\ op.name = "reopen"
    /\ NumAppended >= 2
    /\ appended[1][1] # LastStored[1]

\* C5: a store call that returns an error appends nothing to the file and
\* leaves items, first_key, last_key and end_offset as they were.
C5_FailedStoreChangesNothing ==
    [][StoreStep /\ ~IsOk(res') =>
          UNCHANGED <<file, items, first_key, last_key, end_offset>>]_vars

\* C5 witness: a store with a key after last_key failed on the type of its
\* value, on a store that holds records.
C5_Witness ==
    /\ op.name = "store"
    /\ NumAppended >= 1
    /\ op.key.ty = "Timestamp"
    /\ op.key.v > LastStored[1]
    /\ op.value = OtherData
    /\ res.kind = "InvalidInput"

\* C6: the records in the file are strictly ascending by key: each record's
\* key is greater than the key of the record before it.
C6_KeysStrictlyAscending ==
    \A i \in 1..(Len(file) \div ItemSize - 1) :
        LET before == read_key(file, (i - 1) * ItemSize)
            this   == read_key(file, i * ItemSize)
        IN  IsOk(before) /\ IsOk(this) /\ before.val < this.val

\* C6 witness: a store call has failed on a file of three records or more.
C6_Witness ==
    /\ Len(file) >= 3 * ItemSize
    /\ op.name = "store"
    /\ res.kind = "InvalidInput"

\* C7: on every non-empty store, for every stored key k and every direction,
\* retrieve_nearest(k, direction) returns the stored record (k, value).
C7_NearestFindsStoredKey ==
    (op.name = "retrieve_nearest" /\ op.ts \in StoredKeys) =>
        \E i \in 1..NumAppended : appended[i][1] = op.ts /\ res = Ok(appended[i])

\* C8: on a store with two records or more and a timestamp that is not a
\* stored key, Forward returns the record with the smallest key above it
\* (NotFound above the last key), Backward the record with the greatest key
\* below it (NotFound below the first key), and None fails with NotFound.
C8_NearestBetweenKeys ==
    (op.name = "retrieve_nearest" /\ NumAppended >= 2 /\ op.ts \notin StoredKeys) =>
        LET above == {i \in 1..NumAppended : appended[i][1] > op.ts}
            below == {i \in 1..NumAppended : appended[i][1] < op.ts}
        IN  CASE op.dir = "Forward" ->
                   IF above = {} THEN res.kind = "NotFound"
                   ELSE \E i \in above : /\ \A j \in above : i <= j
                                         /\ res = Ok(appended[i])
              [] op.dir = "Backward" ->
                   IF below = {} THEN res.kind = "NotFound"
                   ELSE \E i \in below : /\ \A j \in below : i >= j
                                         /\ res = Ok(appended[i])
              [] OTHER -> res.kind = "NotFound"

\* C8 witness: a Forward search between the first and second of three
\* records, settled by bisection, returned the second.
C8_Witness ==
    /\ op.name = "retrieve_nearest"
    /\ op.dir = "Forward"
    /\ NumAppended = 3
    /\ appended[1][1] < op.ts
    /\ op.ts < appended[2][1]
    /\ res = Ok(appended[2])

\* C9: on a store with two records or more and from < to,
\* retrieve_range(from..to) returns exactly the stored records with
\* from <= key < to, in ascending key order.
C9_RangeIsHalfOpen ==
    (op.name = "retrieve_range" /\ NumAppended >= 2 /\ op.start < op.end) =>
        res = Ok(RecordsIn(appended, op.start, op.end))

\* C9 witness: a range that starts at a stored key and ends at a stored key
\* returned two records or more, the one at its end not among them.
C9_Witness ==
    /\ op.name = "retrieve_range"
    /\ op.start \in StoredKeys
    /\ op.end \in StoredKeys
    /\ IsOk(res)
    /\ Len(res.val) >= 2
    /\ res.val[1][1] = op.start
    /\ res.val[Len(res.val)][1] < op.end

\* C10: for every store and every from >= to, retrieve_range(from..to)
\* returns an empty result; it neither fails nor aborts.
C10_BackwardRangeIsEmpty ==
    (op.name = "retrieve_range" /\ op.start >= op.end) => res = Ok(<<>>)

\* The records of a sequence whose key is at or after ts, and those whose key
\* is before ts, in order.
RecordsFrom(recs, ts) ==
    LET AtOrAfter(r) == r[1] >= ts
    IN  SelectSeq(recs, AtOrAfter)
RecordsBefore(recs, ts) ==
    LET Before(r) == r[1] < ts
    IN  SelectSeq(recs, Before)

\* C11: on a store with two records or more, retrieve_from(ts) returns
\* exactly the stored records with key >= ts in ascending order: every record
\* when ts <= first key, none when ts > last_key.
C11_RetrieveFromIsSuffix ==
    (op.name = "retrieve_from" /\ NumAppended >= 2) =>
        /\ res = Ok(RecordsFrom(appended, op.ts))
        /\ op.ts <= appended[1][1] => res = Ok(appended)
        /\ op.ts > last_key => res = Ok(<<>>)

\* C11 witness: a timestamp strictly between two stored keys returned the
\* records after it, and not the one before it.
C11_Witness ==
    /\ op.name = "retrieve_from"
    /\ NumAppended = 3
    /\ appended[1][1] < op.ts
    /\ op.ts < appended[2][1]
    /\ res = Ok(<<appended[2], appended[3]>>)

\* C12: on a store with two records or more, retrieve_to(ts) returns exactly
\* the stored records with key < ts in ascending order, a record with
\* key = ts excluded; with ts at or before the first key the result is empty
\* and no error is returned.
C12_RetrieveToIsPrefix ==
    (op.name = "retrieve_to" /\ NumAppended >= 2) =>
        /\ res = Ok(RecordsBefore(appended, op.ts))
        /\ op.ts <= appended[1][1] => res = Ok(<<>>)

\* C12 witness: retrieve_to at the key of the last of three records returned
\* the two records before it.
C12_Witness ==
    /\ op.name = "retrieve_to"
    /\ NumAppended = 3
    /\ op.ts = appended[3][1]
    /\ res = Ok(<<appended[1], appended[2]>>)

\* C13: on a store holding exactly one record (k, v), retrieve_from(ts) with
\* ts <= k returns [(k, v)] and retrieve_to(ts) with ts > k returns [(k, v)].
C13_OneRecordScans ==
    NumAppended = 1 =>
        /\ (op.name = "retrieve_from" /\ op.ts <= appended[1][1]) => res = Ok(appended)
        /\ (op.name = "retrieve_to" /\ op.ts > appended[1][1]) => res = Ok(appended)

(***************************************************************************)
(* Properties of the pool operations.                                      *)
(***************************************************************************)
PoolOps == {"pool_all", "pool_from", "pool_to", "pool_range"}
IsPool  == op.name \in PoolOps
\* What the pool operation of this state located before gathering.
Scan ==
    CASE op.name = "pool_all"   -> pool_all_scan(file, self)
      [] op.name = "pool_from"  -> pool_from_scan(file, self, op.ts)
      [] op.name = "pool_to"    -> pool_to_scan(file, self, op.ts)
      [] op.name = "pool_range" -> pool_range_scan(file, self, op.start, op.end)
\* The records gather_buckets read (those before the first failed read; none
\* when the operation returned before gathering); the anchor; and the
\* scanned records at or after the anchor.
RECURSIVE RecordsRead(_, _, _)
RecordsRead(f, off, count) ==
    LET r == read_record(f, off)
    IN  IF count <= 0 \/ ~IsOk(r) THEN <<>>
        ELSE <<r.val>> \o RecordsRead(f, off + ItemSize, count - 1)
ScannedBy(scan) ==
    IF scan.done THEN <<>>
    ELSE RecordsRead(file, scan.pos, record_count(scan.start_offset, scan.end_offset))
Scanned == ScannedBy(Scan)
Anchor  == Scan.start_time
Counted ==
    LET scan == Scan
    IN  IF scan.done THEN <<>> ELSE RecordsFrom(ScannedBy(scan), scan.start_time)
\* The entries the operation emitted, and the label of the bucket of a key.
Emitted == IF IsOk(res) THEN res.val ELSE <<>>
LabelOf(anchor, key) ==
    anchor + ((key - anchor) \div op.options.interval) * op.options.interval
InBucket(recs, label) == RecordsIn(recs, label, label + op.options.interval)
\* The stored record in force at a timestamp: the one with the greatest key
\* at or before it.
InForceAt(ts) ==
    LET i == CHOOSE j \in 1..NumAppended :
                 /\ appended[j][1] <= ts
                 /\ \A k \in 1..NumAppended : appended[k][1] <= ts => k <= j
    IN  appended[i]
ValuesOf(recs) == {recs[i][2] : i \in 1..Len(recs)}
Greatest(S) == CHOOSE v \in S : \A w \in S : w <= v
Least(S)    == CHOOSE v \in S : \A w \in S : w >= v

\* C14: on every non-empty store, pool_all with interval = 1, pooling = End
\* and gap_fill = None returns the stored records verbatim: the sequence
\* retrieve_all returns, labels equal to the stored keys.
C14_PoolAllUnitIntervalIsVerbatim ==
    (/\ op.name = "pool_all"
     /\ NumAppended >= 1
     /\ op.options = PoolingOptions(1, "End", "None")) =>
        /\ res = Ok(appended)
        /\ res = retrieve_all(file, self)

\* C14 witness: pool_all returned three records verbatim, with a gap between
\* two of their keys.
C14_Witness ==
    /\ op.name = "pool_all"
    /\ op.options = PoolingOptions(1, "End", "None")
    /\ NumAppended = 3
    /\ appended[3][1] > appended[1][1] + 2
    /\ res = Ok(appended)

\* C15: with gap_fill = None and interval > 0 a pool operation emits exactly
\* one entry for each bucket [label, label + interval) that holds a scanned
\* record with key at or after the anchor, and none for any other bucket.
C15_NoGapFillSkipsEmptyBuckets ==
    (IsPool /\ op.options.gap_fill = "None" /\ op.options.interval > 0) =>
        LET counted == Counted
            anchor  == Anchor
        IN  /\ {Emitted[i][1] : i \in 1..Len(Emitted)}
                   = {LabelOf(anchor, counted[i][1]) : i \in 1..Len(counted)}
            /\ \A i, j \in 1..Len(Emitted) : i < j => Emitted[i][1] # Emitted[j][1]

\* C15 witness: a pool operation with gap_fill = None scanned three records
\* and skipped an empty bucket between two of the entries it emitted.
C15_Witness ==
    /\ IsPool
    /\ op.options.gap_fill = "None"
    /\ Len(Counted) = 3
    /\ \E i \in 1..(Len(Emitted) - 1) :
           Emitted[i + 1][1] > Emitted[i][1] + op.options.interval

C17_PooledValueIsOverBucketRecords ==
    (IsPool /\ op.options.interval > 0) =>
        LET counted == Counted
        IN  /\ \A i \in 1..Len(Emitted) :
                   LET recs   == InBucket(counted, Emitted[i][1])
                       values == [j \in 1..Len(recs) |-> recs[j][2]]
                   IN  recs # <<>> =>
                           Emitted[i][2] =
                               CASE op.options.pooling = "End"   -> values[Len(values)]
                                 [] op.options.pooling = "High"  -> Greatest(ValuesOf(recs))
                                 [] op.options.pooling = "Low"   -> Least(ValuesOf(recs))
                                 [] op.options.pooling = "Sum"   -> sum(values)
                                 [] op.options.pooling = "Mean"  -> mean(values)
                                 [] op.options.pooling = "Start" -> Emitted[i][2]
            /\ \A j \in 1..Len(counted) :
                   Cardinality({i \in 1..Len(Emitted) :
                       /\ Emitted[i][1] <= counted[j][1]
                       /\ counted[j][1] < Emitted[i][1] + op.options.interval}) = 1

\* C17 witness: a bucket of two records with different values, the greater
\* one first, was pooled under High and is followed by another bucket.
C17_Witness ==
    /\ IsPool
    /\ op.options.pooling = "High"
    /\ Len(Emitted) = 2
    /\ LET recs == InBucket(Counted, Emitted[1][1])
       IN  /\ Len(recs) = 2
           /\ recs[1][2] > recs[2][2]
           /\ Emitted[1][2] = recs[1][2]

\* C18: with pooling = Start and gap_fill other than Some(Default), every
\* emitted entry (label, value) carries the value of the stored record with
\* the greatest key <= label; with gap_fill = Some(Default) the entry of a
\* bucket that holds records carries the value of the bucket's first record,
\* also when that record lies after the label.
C18_StartCarriesValueInForce ==
    (IsPool /\ op.options.pooling = "Start" /\ op.options.interval > 0) =>
        LET counted == Counted
        IN  \A i \in 1..Len(Emitted) :
                LET recs == InBucket(counted, Emitted[i][1])
                IN  IF op.options.gap_fill # "Default"
                    THEN Emitted[i][2] = InForceAt(Emitted[i][1])[2]
                    ELSE recs # <<>> => Emitted[i][2] = recs[1][2]

\* C18 witness: under Start with Previous gap fill, a bucket whose first
\* record lies after the label carries the value of an earlier record, which
\* differs from the value of that first record.
C18_Witness ==
    /\ IsPool
    /\ op.options.pooling = "Start"
    /\ op.options.gap_fill = "Previous"
    /\ \E i \in 1..Len(Emitted) :
           LET recs == InBucket(Counted, Emitted[i][1])
           IN  /\ recs # <<>>
               /\ recs[1][1] > Emitted[i][1]
               /\ Emitted[i][2] # recs[1][2]
               /\ Emitted[i][2] = InForceAt(Emitted[i][1])[2]

\* The anchor the pool operation of this state is to use: first_key for
\* pool_all and pool_to, the greater of ts and first_key for pool_from(ts)
\* and pool_range(ts..).
AnchorOf ==
    CASE op.name = "pool_all"   -> appended[1][1]
      [] op.name = "pool_to"    -> appended[1][1]
      [] op.name = "pool_from"  -> Max(op.ts, appended[1][1])
      [] op.name = "pool_range" -> Max(op.start, appended[1][1])

C20_PoolToScansRecordsBefore ==
    (op.name = "pool_to" /\ NumAppended >= 2 /\ op.ts > appended[1][1]) =>
        LET before == RecordsBefore(appended, op.ts)
        IN  /\ Counted = before
            /\ op.options = PoolingOptions(1, "End", "None") =>
                   /\ res = Ok(before)
                   /\ res = retrieve_to(file, self, op.ts)

\* C20 witness: pool_to at the key of the last of three records returned
\* the two records before it.
C20_Witness ==
    /\ op.name = "pool_to"
    /\ op.options = PoolingOptions(1, "End", "None")
    /\ NumAppended = 3
    /\ op.ts = appended[3][1]
    /\ res = Ok(<<appended[1], appended[2]>>)

\* C21: on a store with two records or more and from < to,
\* pool_range(from..to) with interval 1, pooling End and no gap fill returns
\* what retrieve_range(from..to) returns: it is not empty when a stored key
\* lies in from..(to - 1), and it holds no record with key >= to.
C21_PoolRangeMirrorsRetrieveRange ==
    (/\ op.name = "pool_range"
     /\ NumAppended >= 2
     /\ op.start < op.end
     /\ op.options = PoolingOptions(1, "End", "None")) =>
        /\ res = retrieve_range(file, self, op.start, op.end)
        /\ (\E k \in StoredKeys : op.start <= k /\ k < op.end) =>
               IsOk(res) /\ res.val # <<>>
        /\ IsOk(res) => \A i \in 1..Len(res.val) : res.val[i][1] < op.end

\* C22: on a store with two records or more, pool_to(ts) and
\* pool_range(from..ts) with ts equal to or before the first stored key
\* return an empty result, never an error.
C22_WindowBeforeFirstKeyIsEmpty ==
    (/\ op.name \in {"pool_to", "pool_range"}
     /\ NumAppended >= 2
     /\ (IF op.name = "pool_to" THEN op.ts ELSE op.end) <= appended[1][1]) =>
        res = Ok(<<>>)

\* C23: a pool operation called with interval 0, the interval of
\* PoolingOptions::default(), returns an error: it gives no result and it
\* does not enter the loop that rolls buckets forward.
C23_ZeroIntervalIsRejected ==
    (IsPool /\ op.options.interval = 0) =>
        res.kind \notin {"Ok", "Diverges", "Panic"}

\* Whether the key field of the record at byte offset off of f is a
\* Timestamp as into_bytes writes it or as from_bytes reads it: KSize bytes,
\* all digits but for a '+' that may come first.
WellFormedKeyAt(f, off) ==
    /\ off + KSize <= Len(f)
    /\ \A i \in 1..KSize :
           IsDigit(f[off + i]) \/ (i = 1 /\ f[off + i] = BytePlus)

\* C24 as stated: opening a file whose length is not a multiple of item_size
\* fails with InvalidData and gives no store; opening a file whose length is
\* a multiple of item_size, 0 included, succeeds.
C24_OpenSucceedsIffSizeIsMultiple ==
    op.name = "open" =>
        IF Len(file) % ItemSize # 0
        THEN res.kind = "InvalidData" /\ ~opened
        ELSE IsOk(res) /\ opened

\* C24, amended: opening a file whose length is not a multiple of item_size
\* fails with InvalidData and gives no store; opening a file whose length is
\* a multiple of item_size succeeds when the file is empty or the key fields
\* of its first and of its last record are well formed, and fails with
\* InvalidData when one of the two is not.
C24_OpenChecksSizeAndEndKeys ==
    op.name = "open" =>
        IF Len(file) % ItemSize # 0
        THEN res = Err("InvalidData", "FileStorage file is an invalid size") /\ ~opened
        ELSE IF Len(file) = 0
                \/ (WellFormedKeyAt(file, 0) /\ WellFormedKeyAt(file, Len(file) - ItemSize))
        THEN IsOk(res) /\ opened /\ items = Len(file) \div ItemSize
        ELSE res.kind = "InvalidData" /\ ~opened

\* C24 witness: a file of two whole records was opened.
C24_Witness ==
    /\ op.name = "open"
    /\ Len(file) = 2 * ItemSize
    /\ IsOk(res)
    /\ items = 2

\* The byte offsets at which the records in a file start: every record ends
\* with a newline, so one starts at 0 and one after each newline but the
\* last byte.
RecordStarts(f) ==
    IF f = <<>> THEN {}
    ELSE {0} \cup {i \in 1..(Len(f) - 1) : f[i] = ByteNL}

\* C25: in every state of an open store, after new and after each store,
\* len() = items is the number of records in the file, end_offset is
\* (items - 1) * item_size when items > 0 and 0 when items = 0, and when
\* items > 0 first_key and last_key are the keys of the first and of the
\* last record in the file.
C25_CachedStateMirrorsFile ==
    opened =>
        LET starts == RecordStarts(file)
        IN  /\ len = Cardinality(starts)
            /\ end_offset = IF items > 0 THEN (items - 1) * ItemSize ELSE 0
            /\ items > 0 =>
                   /\ starts # {}
                   /\ first_key = read_key(file, Least(starts)).val
                   /\ last_key = read_key(file, Greatest(starts)).val

\* C26: binary_search_for_key over a range whose two ends are the same
\* offset returns NotFound for every key and direction, and reads no key for
\* it: the answer is the same where a key is stored at the offset, where the
\* search key is that key, and where the file ends at the offset.  So on a
\* store of no record or one, where end_offset = 0, every retrieve_nearest
\* fails with NotFound.
C26_OneOffsetRangeIsNotFound ==
    /\ \A n \in 0..(Len(file) \div ItemSize), k \in Timestamps, dir \in Directions :
           binary_search_for_key(file, dir, k, n * ItemSize, n * ItemSize)
               = Err("NotFound", "No items in search range")
    /\ (op.name = "retrieve_nearest" /\ NumAppended <= 1) =>
           /\ end_offset = 0
           /\ res = Err("NotFound", "No items in search range")

\* C26 witness: retrieve_nearest of the one key a store holds returned
\* NotFound.
C26_Witness ==
    /\ op.name = "retrieve_nearest"
    /\ NumAppended = 1
    /\ op.ts = appended[1][1]
    /\ res.kind = "NotFound"

\* C27: on an empty store every scan and every pool operation, whatever its
\* arguments, timestamp 0 included, returns an empty result and no error.
C27_EmptyStoreScansAreEmpty ==
    (/\ op.name \in {"retrieve_all", "retrieve_from", "retrieve_to", "retrieve_range"}
                        \cup PoolOps
     /\ items = 0
     /\ Len(file) = 0) =>
        res = Ok(<<>>)

\* A step that is a call of one of the reads.
ReadStep == op = Idle /\ op'.name \in ReadNames

\* C28: no read, whether it succeeds or fails, changes the file or items,
\* first_key, last_key, end_offset; and a store made after a read appends
\* its record at the end of the file, wherever the read left the cursor.
C28_ReadsChangeNothingAndStoreAppends ==
    [][/\ ReadStep =>
              UNCHANGED <<file, items, first_key, last_key, end_offset>>
       /\ (StoreStep /\ IsOk(res')) =>
              /\ file' = file \o write_record(<<>>, op'.key.v, op'.value.v)
              /\ read_records(file', 0, items') = Ok(appended')
      ]_vars

\* C28 witness: a store made with the cursor at the start of a file of two
\* records succeeded.
C28_Witness ==
    /\ op.name = "store"
    /\ NumAppended = 3
    /\ op.cursor = 0
    /\ IsOk(res)

\* Whether a pool call is inside gather_buckets.
InLoops == res.kind = "Running"

\* C29: with interval > 0 every pool_all, pool_from, pool_to and pool_range
\* terminates.  The for loop begins at most record_count - 1 iterations,
\* the while loop never passes a bucket that starts after the record's
\* timestamp, and a call that is inside gather_buckets leaves it.
C29_PoolCallsTerminate ==
    /\ [](InLoops =>
              /\ op.options.interval > 0
              /\ res.iter <= res.count - 1
              /\ res.pc = "while" =>
                     /\ res.bucket.start <= res.record[1]
                     /\ res.rolls * op.options.interval <= res.record[1])
    /\ (InLoops ~> ~InLoops)

\* C29 witness: the while loop has passed two buckets for the second of
\* two records or more.
C29_Witness ==
    /\ InLoops
    /\ res.pc = "while"
    /\ res.rolls = 2
    /\ res.count >= 2

\* C30: on a store with two records or more, pool_from(ts) with ts after
\* the last stored key returns an empty result for every PoolingOptions
\* with interval > 0, as retrieve_from(ts) does.
C30_PoolFromPastLastKeyIsEmpty ==
    (/\ op.name = "pool_from"
     /\ NumAppended >= 2
     /\ op.ts > LastStored[1]
     /\ op.options.interval > 0) =>
        /\ res = Ok(<<>>)
        /\ res = retrieve_from(file, self, op.ts)

====
